---- MODULE Spec2Model ----
(***************************************************************************)
(* Model of toyfst-reader.                                                 *)
(*                                                                         *)
(*   src/main.rs   main / collect_signals / SignalMetadata: one pass over  *)
(*                 the hierarchy entries handed out by the FST decoder,    *)
(*                 then one filtered value-change pass whose callback      *)
(*                 logs one record per event.            (specification    *)
(*                 Spec)                                                   *)
(*   src/pprof.rs  StringTable: new / id / to_string_table.                *)
(*                 (specification SpecST)                                  *)
(***************************************************************************)
EXTENDS Integers, Sequences, FiniteSets, TLC

\* ---------------------------------------------------------------- bounds
MaxHier == 4
MaxExpected == 2
MaxEvents == 2
MaxCalls == 4

\* ---------------------------------------------------------- input domains
VarNames == {"clk", "valid"}
ScopeNames == {"top", "sub"}
Handles == {0, 1}
Times == {0, 1}
SignalValues == {[kind |-> "String", text |-> "1"], [kind |-> "Real", text |-> "0.5"]}
Strings == {"", "cycle", "0", "bit"}

VARIABLES
  pc,            \* position of main: "hier", "collected", "failed", "signals", "done", "panicked", "pprof"
  expected,      \* main.rs:127  requested names, in command-line order
  hier,          \* hierarchy entries the decoder has handed to the closure so far
  metadata,      \* main.rs:171  SignalMetadata under construction / returned
  module_path,   \* main.rs:172  live scope path
  dedup_pool,    \* main.rs:173  handle indices already recorded
  popped_empty,  \* some module_path.pop() at main.rs:184 found the path empty
  f,             \* main.rs:134  handles the value-change replay is restricted to
  events,        \* value-change events the decoder has replayed so far (all handles)
  log,           \* records written by the callback at main.rs:147
  tbl,           \* pprof.rs:11  StringTable {data, next}
  calls,         \* StringTable::id calls made so far, with the value each returned
  string_table   \* last result of to_string_table

vars == <<pc, expected, hier, metadata, module_path, dedup_pool, popped_empty,
          f, events, log, tbl, calls, string_table>>

mainVars == <<pc, expected, hier, metadata, module_path, dedup_pool, popped_empty,
              f, events, log>>
stVars == <<tbl, calls, string_table>>

\* ------------------------------------------------------------- utilities
Range(s) == {s[i] : i \in 1..Len(s)}

SeqsUpTo(S, lo, hi) == UNION {[1..n -> S] : n \in lo..hi}

\* ------------------------------------------------------- src/main.rs model

\* variant: only the first requested name is compared
Contains_first(xs, x) == Len(xs) >= 1 /\ xs[1] = x

\* slice::contains at main.rs:176, a left-to-right scan of the requested names
Contains(xs, x) == \E i \in 1..Len(xs) : xs[i] = x

\* #[derive(Default)] SignalMetadata
SignalMetadata_default == [module_paths |-> <<>>, names |-> <<>>, handle |-> <<>>]

\* variant: every entry shares the one live path instead of owning a copy
SignalMetadata_push_shared(md, path, name, handle_id) ==
  [module_paths |-> [i \in 1..(Len(md.module_paths) + 1) |-> path],
   names        |-> Append(md.names, name),
   handle       |-> Append(md.handle, handle_id)]

\* SignalMetadata::push
SignalMetadata_push(md, path, name, handle_id) ==
  [module_paths |-> Append(md.module_paths, path),
   names        |-> Append(md.names, name),
   handle       |-> Append(md.handle, handle_id)]

\* guard of the Var arm
ShouldRecord(exp, pool, name, h) == Contains(exp, name) /\ h \notin pool

\* variant: the recorded handle is never remembered
DedupInsert_skip(pool, id) == pool

\* dedup_pool.insert(id)
DedupInsert(pool, id) == pool \cup {id}

\* Vec::push on the live path
PathPush(path, name) == Append(path, name)

\* variant: leaving a scope does not shorten the path
PathPop_noop(path) == path

\* Vec::pop on the live path: the popped value is discarded, None on empty
PathPop(path) == IF path = <<>> THEN <<>> ELSE SubSeq(path, 1, Len(path) - 1)

VarEntry(n, h) == [kind |-> "Var", name |-> n, handle |-> h]
ScopeEntry(n) == [kind |-> "Scope", name |-> n, handle |-> 0]
UpScopeEntry == [kind |-> "UpScope", name |-> "", handle |-> 0]
OtherEntry == [kind |-> "Other", name |-> "", handle |-> 0]

\* FstSignalValue -> String at main.rs:137-140, as a list of text fragments
FormatValue(value) ==
  IF value.kind = "String" THEN <<value.text>> ELSE <<"real: ", value.text>>

\* variant: the first entry is taken without comparing handles
FindHandle_first(handles, h) == IF Len(handles) >= 1 THEN 1 ELSE 0

\* metadata.handle.iter().enumerate().find(..): first matching index, 0 for None
FindHandle(handles, h) ==
  IF \E i \in 1..Len(handles) : handles[i] = h
    THEN CHOOSE i \in 1..Len(handles) :
           handles[i] = h /\ \A j \in 1..(i - 1) : handles[j] # h
    ELSE 0

\* variant: the newest record is put first
Emit_front(out, rec) == <<rec>> \o out

\* info!(..) at main.rs:147: one more record at the end of the output
Emit(out, rec) == Append(out, rec)

\* body of the read_signals callback
Callback(out, md, t, handle, value) ==
  LET v == FormatValue(value)
      i == FindHandle(md.handle, handle)
  IN IF i # 0 THEN Emit(out, [t |-> t, signal |-> md.names[i], value |-> v])
              ELSE out

\* FstFilter::filter_signals(metadata.handle.clone())
FilterSignals(md) == md.handle

Included(filter, h) == \E i \in 1..Len(filter) : filter[i] = h

\* ------------------------------------------------------ src/pprof.rs model

\* table and result slots while the other component runs
IdleTable == [data |-> <<>>, next |-> 0]
NoTable == [called |-> FALSE, at |-> 0, table |-> <<>>]

\* variant: the counter starts one too high
StringTable_new_from1 == [data |-> ("" :> 0), next |-> 1]

\* StringTable::new
StringTable_new == [data |-> ("" :> 0), next |-> 0]

\* variant: or_insert with an eagerly evaluated argument, the counter moves on every call
StringTable_id_eager(t, q) ==
  LET n == t.next + 1
  IN IF q \in DOMAIN t.data
       THEN [tbl |-> [data |-> t.data, next |-> n], ret |-> t.data[q]]
       ELSE [tbl |-> [data |-> t.data @@ (q :> n), next |-> n], ret |-> n]

\* StringTable::id: entry(q).or_insert_with(|| { next += 1; next })
StringTable_id(t, q) ==
  IF q \in DOMAIN t.data
    THEN [tbl |-> t, ret |-> t.data[q]]
    ELSE LET n == t.next + 1
         IN [tbl |-> [data |-> t.data @@ (q :> n), next |-> n], ret |-> n]

\* self.data.iter(): the (string, id) pairs, in the map's arbitrary order
Entries(t) == {[str |-> s, id |-> t.data[s]] : s \in DOMAIN t.data}

Orders(S) ==
  {c \in [1..Cardinality(S) -> S] : \A i, j \in 1..Cardinality(S) : c[i] = c[j] => i = j}

\* variant: the sort is left out
SortedById_unsorted(cache) == TRUE

\* cache.sort_by(|(_, prev), (_, next)| prev.cmp(next)): what holds of cache afterwards
SortedById(cache) == \A i, j \in 1..Len(cache) : i < j => cache[i].id <= cache[j].id

\* cache.into_iter().map(|(str, _)| str.to_owned()).collect()
WaiveIndex(cache) == [i \in 1..Len(cache) |-> cache[i].str]

Init ==
  /\ pc = "hier"
  /\ expected \in SeqsUpTo(VarNames, 1, MaxExpected)
  /\ hier = <<>>
  /\ metadata = SignalMetadata_default
  /\ module_path = <<>>
  /\ dedup_pool = {}
  /\ popped_empty = FALSE
  /\ f = <<>>
  /\ events = <<>>
  /\ log = <<>>
  /\ tbl = IdleTable
  /\ calls = <<>>
  /\ string_table = NoTable

HierStep(entry) ==
  /\ pc = "hier"
  /\ Len(hier) < MaxHier
  /\ hier' = Append(hier, entry)
  /\ UNCHANGED <<pc, expected, f, events, log, stVars>>

\* main.rs:175-181
OnVar(name, handle) ==
  /\ HierStep(VarEntry(name, handle))
  /\ IF ShouldRecord(expected, dedup_pool, name, handle)
       THEN /\ metadata' = SignalMetadata_push(metadata, module_path, name, handle)
            /\ dedup_pool' = DedupInsert(dedup_pool, handle)
       ELSE UNCHANGED <<metadata, dedup_pool>>
  /\ UNCHANGED <<module_path, popped_empty>>

\* main.rs:182
OnScope(name) ==
  /\ HierStep(ScopeEntry(name))
  /\ module_path' = PathPush(module_path, name)
  /\ UNCHANGED <<metadata, dedup_pool, popped_empty>>

\* main.rs:183-185
OnUpScope ==
  /\ HierStep(UpScopeEntry)
  /\ module_path' = PathPop(module_path)
  /\ popped_empty' = (popped_empty \/ module_path = <<>>)
  /\ UNCHANGED <<metadata, dedup_pool>>

\* main.rs:186
OnOther ==
  /\ HierStep(OtherEntry)
  /\ UNCHANGED <<metadata, module_path, dedup_pool, popped_empty>>

\* main.rs:188-191, read_hierarchy returned Ok: collect_signals returns Ok(metadata)
CollectOk ==
  /\ pc = "hier"
  /\ pc' = "collected"
  /\ UNCHANGED <<expected, hier, metadata, module_path, dedup_pool, popped_empty,
                 f, events, log, stVars>>

\* main.rs:188-190, read_hierarchy returned Err: collect_signals bails, main returns Err
CollectErr ==
  /\ pc = "hier"
  /\ pc' = "failed"
  /\ UNCHANGED <<expected, hier, metadata, module_path, dedup_pool, popped_empty,
                 f, events, log, stVars>>

\* main.rs:130-134: the closure's locals and the hierarchy iteration are gone,
\* the filter is built from the returned handles
BuildFilter ==
  /\ pc = "collected"
  /\ pc' = "signals"
  /\ f' = FilterSignals(metadata)
  /\ hier' = <<>>
  /\ module_path' = <<>>
  /\ dedup_pool' = {}
  /\ popped_empty' = FALSE
  /\ UNCHANGED <<expected, metadata, events, log, stVars>>

LastTime == IF events = <<>> THEN 0 ELSE events[Len(events)].t

\* main.rs:135-149: the decoder replays the next value change of the file; it
\* calls the closure only for handles of the filter
ReadSignal(t, handle, value) ==
  /\ pc = "signals"
  /\ Len(events) < MaxEvents
  /\ t >= LastTime
  /\ events' = Append(events, [t |-> t, handle |-> handle, value |-> value])
  /\ log' = IF Included(f, handle) THEN Callback(log, metadata, t, handle, value)
                                   ELSE log
  /\ UNCHANGED <<pc, expected, hier, metadata, module_path, dedup_pool,
                 popped_empty, f, stVars>>

\* main.rs:150-152, read_signals returned Ok
ReadSignalsOk ==
  /\ pc = "signals"
  /\ pc' = "done"
  /\ UNCHANGED <<expected, hier, metadata, module_path, dedup_pool, popped_empty,
                 f, events, log, stVars>>

\* main.rs:150, read_signals returned Err: unwrap panics
ReadSignalsErr ==
  /\ pc = "signals"
  /\ pc' = "panicked"
  /\ UNCHANGED <<expected, hier, metadata, module_path, dedup_pool, popped_empty,
                 f, events, log, stVars>>

Next ==
  \/ \E n \in VarNames, h \in Handles : OnVar(n, h)
  \/ \E n \in ScopeNames : OnScope(n)
  \/ OnUpScope
  \/ OnOther
  \/ CollectOk
  \/ CollectErr
  \/ BuildFilter
  \/ \E t \in Times, h \in Handles, v \in SignalValues : ReadSignal(t, h, v)
  \/ ReadSignalsOk
  \/ ReadSignalsErr

Spec == Init /\ [][Next]_vars

\* ---------------------------------------------------- StringTable actions

InitST ==
  /\ pc = "pprof"
  /\ expected = <<>>
  /\ hier = <<>>
  /\ metadata = SignalMetadata_default
  /\ module_path = <<>>
  /\ dedup_pool = {}
  /\ popped_empty = FALSE
  /\ f = <<>>
  /\ events = <<>>
  /\ log = <<>>
  /\ tbl = StringTable_new
  /\ calls = <<>>
  /\ string_table = NoTable

\* a call str_tbl.id(q)
Id(q) ==
  /\ pc = "pprof"
  /\ Len(calls) < MaxCalls
  /\ LET r == StringTable_id(tbl, q)
     IN /\ tbl' = r.tbl
        /\ calls' = Append(calls, [q |-> q, ret |-> r.ret])
  /\ UNCHANGED <<mainVars, string_table>>

\* a call str_tbl.to_string_table()
ToStringTable ==
  /\ pc = "pprof"
  /\ \E cache \in Orders(Entries(tbl)) :
       /\ SortedById(cache)
       /\ string_table' = [called |-> TRUE, at |-> Len(calls), table |-> WaiveIndex(cache)]
  /\ UNCHANGED <<mainVars, tbl, calls>>

NextST ==
  \/ \E q \in Strings : Id(q)
  \/ ToStringTable

SpecST == InitST /\ [][NextST]_vars

\* ------------------------------------------------- properties: hierarchy pass

InHierarchyPass == pc \in {"hier", "collected", "failed"}

Requested == Range(expected)

RequestedVarAt(h, p) == h[p].kind = "Var" /\ h[p].name \in Requested

\* handles with at least one declaration whose name is requested
MatchingHandles(h) == {h[p].handle : p \in {q \in 1..Len(h) : RequestedVarAt(h, q)}}

CountKind(h, lo, hi, k) == Cardinality({p \in lo..hi : h[p].kind = k})

\* the scope opened at position i is closed by the first later UpScope that
\* finds everything opened after i already closed
ClosedBy(h, i) ==
  \E j \in (i + 1)..Len(h) :
    CountKind(h, i + 1, j, "UpScope") > CountKind(h, i + 1, j, "Scope")

OpenIdx(h) == {i \in 1..Len(h) : h[i].kind = "Scope" /\ ~ClosedBy(h, i)}

\* names of the scopes entered and not yet exited, outermost first
OpenScopeNames(h) ==
  LET idx == OpenIdx(h)
      kth(k) == CHOOSE i \in idx : Cardinality({j \in idx : j <= i}) = k
  IN [k \in 1..Cardinality(idx) |-> h[kth(k)].name]

\* every scope exit closes an open scope and every scope is closed
LegallyNested(h) ==
  /\ \A p \in 1..Len(h) :
       CountKind(h, 1, p, "UpScope") <= CountKind(h, 1, p, "Scope")
  /\ CountKind(h, 1, Len(h), "UpScope") = CountKind(h, 1, Len(h), "Scope")

MetaEntry(md, i) ==
  [path |-> md.module_paths[i], name |-> md.names[i], handle |-> md.handle[i]]

\* C1: after any prefix of the hierarchy, no two recorded entries have the same
\* handle and every recorded name is one of the requested names.
C1_UniqueHandlesRequestedNames ==
  /\ Len(metadata.names) = Len(metadata.handle)
  /\ Len(metadata.module_paths) = Len(metadata.handle)
  /\ \A i, j \in 1..Len(metadata.handle) :
       metadata.handle[i] = metadata.handle[j] => i = j
  /\ \A i \in 1..Len(metadata.names) : metadata.names[i] \in Requested

\* a prefix with a repeated handle and an unrequested name, two entries recorded
C1_Witness ==
  /\ pc = "hier"
  /\ Len(metadata.handle) = 2
  /\ \E p, q \in 1..Len(hier) :
       /\ p < q
       /\ RequestedVarAt(hier, p) /\ RequestedVarAt(hier, q)
       /\ hier[p].handle = hier[q].handle
  /\ \E p \in 1..Len(hier) : hier[p].kind = "Var" /\ hier[p].name \notin Requested

\* C2: when collect_signals returns, the metadata holds exactly one entry per
\* handle that has a declaration with a requested name, whatever the number of
\* times a name is requested or a handle is declared.
C2_OneEntryPerMatchingHandle ==
  pc = "collected" =>
    /\ Range(metadata.handle) = MatchingHandles(hier)
    /\ Len(metadata.handle) = Cardinality(MatchingHandles(hier))

\* a name requested twice, its handle declared twice, one entry returned
C2_Witness ==
  /\ pc = "collected"
  /\ Len(expected) = 2 /\ expected[1] = expected[2]
  /\ \E p, q \in 1..Len(hier) :
       /\ p < q
       /\ RequestedVarAt(hier, p) /\ RequestedVarAt(hier, q)
       /\ hier[p].handle = hier[q].handle
  /\ Len(metadata.handle) = 1

\* C6: during the hierarchy pass the live path is the names of the scopes
\* entered and not yet exited, outermost first; after a full pass over a
\* legally nested hierarchy it is empty.
C6_ScopePathBalance ==
  InHierarchyPass =>
    /\ module_path = OpenScopeNames(hier)
    /\ (pc = "collected" /\ LegallyNested(hier)) => module_path = <<>>

\* a complete, legally nested pass that went two scopes deep
C6_Witness ==
  /\ pc = "collected"
  /\ LegallyNested(hier)
  /\ \E p \in 1..Len(hier) : CountKind(hier, 1, p, "Scope") - CountKind(hier, 1, p, "UpScope") = 2
  /\ module_path = <<>>

\* C7: an UpScope entry met while the live path is empty makes the resolver
\* fail, so collect_signals never returns metadata after one.
C7_UpScopeOnEmptyFails == popped_empty => pc # "collected"

\* C9: an entry is recorded with the live path of that moment, and no later
\* step changes the path, name or handle of an entry already recorded.
C9_Step ==
  /\ Len(metadata'.names) >= Len(metadata.names)
  /\ \A i \in 1..Len(metadata.names) : MetaEntry(metadata', i) = MetaEntry(metadata, i)
  /\ Len(metadata'.names) > Len(metadata.names) =>
       /\ Len(metadata'.names) = Len(metadata.names) + 1
       /\ metadata'.module_paths[Len(metadata'.names)] = module_path

C9_SnapshotFrame == [][C9_Step]_vars

\* two entries recorded under different paths, the live path now a third one
C9_Witness ==
  /\ pc = "hier"
  /\ Len(metadata.names) = 2
  /\ metadata.module_paths[1] # metadata.module_paths[2]
  /\ module_path # metadata.module_paths[1]
  /\ module_path # metadata.module_paths[2]

\* ---------------------------------------------- properties: value-change pass

InValueChangePass == pc \in {"signals", "done", "panicked"}

Resolved(h) == \E i \in 1..Len(metadata.handle) : metadata.handle[i] = h

KeptEvents ==
  LET keep(e) == Resolved(e.handle)
  IN SelectSeq(events, keep)

\* C8: the records emitted are the replayed events of the resolved handles, in
\* the order replayed, hence with non-decreasing timestamps.
C8_RecordsInEventOrder ==
  InValueChangePass =>
    /\ Len(log) = Len(KeptEvents)
    /\ \A i \in 1..Len(log) :
         /\ log[i].t = KeptEvents[i].t
         /\ log[i].value = FormatValue(KeptEvents[i].value)
    /\ \A i, j \in 1..Len(log) : i < j => log[i].t <= log[j].t

\* two records of different times and values
C8_Witness ==
  /\ InValueChangePass
  /\ Len(log) = 2
  /\ log[1].t < log[2].t
  /\ log[1].value # log[2].value

\* C10: a replayed event of an unresolved handle emits nothing; one of a
\* resolved handle emits exactly one record, named after the entry of that handle.
C10_Step ==
  Len(events') = Len(events) + 1 =>
    LET e == events'[Len(events')]
    IN IF Resolved(e.handle)
         THEN /\ Len(log') = Len(log) + 1
              /\ SubSeq(log', 1, Len(log)) = log
              /\ \A i \in 1..Len(metadata.handle) :
                   metadata.handle[i] = e.handle =>
                     log'[Len(log')].signal = metadata.names[i]
         ELSE log' = log

C10_FilteredOneRecordPerEvent == [][C10_Step]_vars

\* one resolved handle: an event of the other handle emitted nothing, an event
\* of the resolved handle emitted one record
C10_Witness ==
  /\ InValueChangePass
  /\ Len(metadata.handle) = 1
  /\ Len(events) = 2
  /\ ~Resolved(events[1].handle)
  /\ Resolved(events[2].handle)
  /\ Len(log) = 1
  /\ log[1].signal = metadata.names[1]

\* --------------------------------------------------- properties: StringTable

\* the distinct non-empty strings passed to id, in order of first use
RECURSIVE FirstUses(_)
FirstUses(cs) ==
  IF cs = <<>> THEN <<>>
  ELSE LET pre == FirstUses(SubSeq(cs, 1, Len(cs) - 1))
           q == cs[Len(cs)].q
       IN IF q = "" \/ q \in Range(pre) THEN pre ELSE Append(pre, q)

C3_SameId ==
  \A i, j \in 1..Len(calls) : calls[i].q = calls[j].q => calls[i].ret = calls[j].ret

C3_KnownStep ==
  (Len(calls') = Len(calls) + 1 /\ calls'[Len(calls')].q \in DOMAIN tbl.data) =>
    tbl' = tbl

\* C3: every call id(s) returns what the first call id(s) returned, and a
\* call for a known string leaves the map and the counter as they were.
C3_IdStable == []C3_SameId /\ [][C3_KnownStep]_vars

\* a known string asked again after another string was interned
C3_Witness ==
  /\ pc = "pprof"
  /\ \E i, j, k \in 1..Len(calls) :
       /\ i < j /\ j < k
       /\ calls[i].q = calls[k].q
       /\ calls[i].q # ""
       /\ calls[j].q # calls[i].q
       /\ calls[j].q # ""

\* C4: the empty string has id 0 and nothing else has; the k-th distinct
\* non-empty string passed to id has id k.
C4_IdsInFirstUseOrder ==
  pc = "pprof" =>
    /\ "" \in DOMAIN tbl.data
    /\ \A s \in DOMAIN tbl.data : (tbl.data[s] = 0) = (s = "")
    /\ DOMAIN tbl.data = {""} \cup Range(FirstUses(calls))
    /\ \A k \in 1..Len(FirstUses(calls)) : tbl.data[FirstUses(calls)[k]] = k
    /\ \A i \in 1..Len(calls) : calls[i].ret = tbl.data[calls[i].q]

\* three distinct strings interned, the empty string asked for as well
C4_Witness ==
  /\ pc = "pprof"
  /\ Len(FirstUses(calls)) = 3
  /\ \E i \in 1..Len(calls) : calls[i].q = ""

\* C5: to_string_table returns the strings by ascending id: one more element
\* than distinct non-empty strings interned, the empty string first, and every
\* string s at index id(s).
C5_TableIsProjection ==
  (string_table.called /\ string_table.at = Len(calls)) =>
    LET T == string_table.table
    IN /\ Len(T) = 1 + Cardinality({calls[i].q : i \in 1..Len(calls)} \ {""})
       /\ T[1] = ""
       /\ \A s \in DOMAIN tbl.data : T[tbl.data[s] + 1] = s

\* the table taken after four calls that interned three strings
C5_Witness ==
  /\ string_table.called
  /\ string_table.at = Len(calls)
  /\ Len(string_table.table) = 4
  /\ Len(calls) = 4

====
